---- MODULE Spec2Model ----
(***************************************************************************)
(* The implicit-graph search kernel of src/utils/graph.rs: try_dfs_full,   *)
(* try_bfs_full and dijkstra_full, with the entry points dfs, bfs,         *)
(* dijkstra_starts_iter built on them and the resumption of a *_full call. *)
(* One kernel call runs one loop iteration per step.                       *)
(***************************************************************************)
EXTENDS Integers, Sequences, FiniteSets, TLC

VARIABLES
  mode,      \* which engine is called: "dfs", "bfs" or "dijkstra"
  entry,     \* the public function called: "dfs", "bfs", "dijkstra" or
             \* "dijkstra_starts_iter"
  graph,     \* the implicit graph behind neighbor_fn: [edge <<u, v>> -> increment]
  starts,    \* the start entries <<[state, weight]>> (dfs/bfs: one, weight unused)
  targets,   \* end_state_fn: the states it accepts
  minSteps,  \* end_state_fn: the least accumulator count it accepts
  accInit,   \* acc_init: the count the accumulator starts from
  panicOn,   \* neighbor_fn: the states on which the caller's closure panics
  frontier,  \* work_stack / work_queue / work_heap
  visited,   \* the HashSet of expanded states
  result,    \* what the call returned: Pending, NoneResult or a Some record
  pc,        \* "init" before the call, "run" inside the loop, "done" after return
  log,       \* the closure calls and pops of the current call, in order
  pops,      \* loop iterations of the current call
  phase,     \* 1: the first call, 2: the call resumed from its residue
  extra,     \* the seed added at resumption ("-" before)
  first,     \* at resumption: the first call's result, visited set and the
             \* frontier the resumed call starts from
  peer       \* a second call running on another thread over the same
             \* closures: its start, frontier, visited set, result and position

vars == <<mode, entry, graph, starts, targets, minSteps, accInit, panicOn, frontier, visited,
          result, pc, log, pops, phase, extra, first, peer>>

(***************************************************************************)
(* Bounds of the model.                                                    *)
(***************************************************************************)
MaxEdges == 3      \* edges of a generated graph
MaxWeight == 1     \* largest weight increment of a generated edge
MaxPops == 12      \* cap on the loop iterations of one call
MaxStep == 3       \* largest step_count given to Day21Part1::step

States == {"a", "b", "c", "d"}
GenStates == {"a", "b", "c"}
StateOrder == <<"a", "b", "c", "d">>
NoState == "-"

(***************************************************************************)
(* Graphs: a function from the edges present to their weight increment.    *)
(***************************************************************************)
EdgeSets(S) == {E \in SUBSET {e \in S \X S : e[1] # e[2]} : Cardinality(E) <= MaxEdges}

\* dfs/bfs: every graph over the four states with at most MaxEdges edges.
UnitGraphs == {[e \in E |-> 1] : E \in EdgeSets(States)}

\* dijkstra: every weighted graph over three states with at most MaxEdges edges.
WeightedGraphs == UNION {[E -> 0..MaxWeight] : E \in EdgeSets(GenStates)}

\* Scenario A: the line a -> b -> c -> d.
LineGraph == (<<"a", "b">> :> 1) @@ (<<"b", "c">> :> 1) @@ (<<"c", "d">> :> 1)

\* Scenario B: the triangle a-b 1, b-c 1, a-c 5 (undirected).
TriangleGraph ==
  (<<"a", "b">> :> 1) @@ (<<"b", "a">> :> 1) @@ (<<"b", "c">> :> 1) @@
  (<<"c", "b">> :> 1) @@ (<<"a", "c">> :> 5) @@ (<<"c", "a">> :> 5)

\* Scenario C: the 2-cycle a -> b -> a.
TwoCycleGraph == (<<"a", "b">> :> 1) @@ (<<"b", "a">> :> 1)

\* A negative increment: a-b 1, a-c 2, c-b -2; the path a, c, b weighs 0.
NegativeGraph == (<<"a", "b">> :> 1) @@ (<<"a", "c">> :> 2) @@ (<<"c", "b">> :> -2)

\* A state that is its own neighbor.
SelfLoopGraph == (<<"a", "a">> :> 0) @@ (<<"a", "b">> :> 1)

(***************************************************************************)
(* The caller's closures.                                                  *)
(***************************************************************************)
\* neighbor_fn(&S) of dfs/bfs: the successors, in a fixed order.
neighbor_fn(g, s) == SelectSeq(StateOrder, LAMBDA t : <<s, t>> \in DOMAIN g)

\* neighbor_fn(&S, &W) of dijkstra: (next_state, next_weight) pairs; the
\* closure adds the increment to the cumulative weight it is given.
neighbor_fn_w(g, s, w) ==
  LET ns == neighbor_fn(g, s)
  IN  [i \in 1..Len(ns) |-> [state |-> ns[i], weight |-> w + g[<<s, ns[i]>>]]]

\* acc_fn: counts the states it is applied to and records them.
acc_fn(acc, s) == [n |-> acc.n + 1, path |-> Append(acc.path, s)]

\* end_state_fn: the state is accepted and the count is large enough.
end_state_fn(acc, s, T, m) == s \in T /\ acc.n >= m

acc_init(n0) == [n |-> n0, path |-> <<>>]

(***************************************************************************)
(* Results.                                                                *)
(***************************************************************************)
Pending == [kind |-> "Pending"]
NoneResult == [kind |-> "None"]
Some2(acc, s) == [kind |-> "Some", acc |-> acc, state |-> s]
Some3(acc, s, w) == [kind |-> "Some", acc |-> acc, state |-> s, weight |-> w]

Ev(op, s) == [op |-> op, state |-> s]

\* acc_fn(&acc, &state): the accumulator it was given and the one it produced
EvAcc(s, a, a2) == [op |-> "acc_fn", state |-> s, arg |-> a, out |-> a2]

\* end_state_fn(&acc, &state): the accumulator it was given and its answer
EvEnd(s, a, r) == [op |-> "end_state_fn", state |-> s, acc |-> a, ret |-> r]

\* dijkstra: the cumulative weight the entry or the closure call carries
EvW(ev, w) == ev @@ ("weight" :> w)

(***************************************************************************)
(* StateWithWeight and the BinaryHeap<Reverse<StateWithWeight>>.           *)
(***************************************************************************)
StateWithWeight(acc, s, w) == [accumulator |-> acc, state |-> s, weight |-> w]

\* W: Ord, the weights' own comparison
WeightCmp(v, w) == IF v < w THEN "Less" ELSE IF v = w THEN "Equal" ELSE "Greater"

\* PartialEq for StateWithWeight: self.weight.eq(&other.weight)
eq(x, y) == x.weight = y.weight

\* Ord for StateWithWeight: self.weight.cmp(&other.weight)
cmp(x, y) == WeightCmp(x.weight, y.weight)

\* Mutation: entries of equal weight are ordered by their state.
Mutant_partial_cmp_tie_by_state(x, y) ==
  [kind |-> "Some",
   ord |-> IF x.weight # y.weight THEN WeightCmp(x.weight, y.weight)
           ELSE IF x.state = y.state THEN "Equal"
           ELSE IF \E i \in 1..Len(StateOrder), j \in 1..Len(StateOrder) :
                     i < j /\ StateOrder[i] = x.state /\ StateOrder[j] = y.state
                THEN "Less" ELSE "Greater"]

\* PartialOrd for StateWithWeight: self.weight.partial_cmp(&other.weight)
partial_cmp(x, y) == [kind |-> "Some", ord |-> WeightCmp(x.weight, y.weight)]

\* x <= y, which PartialOrd derives from partial_cmp
cmp_le(x, y) == partial_cmp(x, y).ord \in {"Less", "Equal"}

\* Mutation: the heap entries are not wrapped in Reverse (a max-heap).
Mutant_rev_le_unreversed(x, y) == cmp_le(x, y)

\* Reverse(x) <= Reverse(y)
rev_le(x, y) == cmp_le(y, x)

Swap(h, i, j) == [h EXCEPT ![i] = h[j], ![j] = h[i]]

\* In the loops below the heap's data and the position are bound to their
\* values once per iteration (h \in {data}, p \in {pos}).
RECURSIVE sift_up(_, _, _)
sift_up(data, start, pos) ==
  CHOOSE r \in {IF p > start /\ ~rev_le(h[p], h[p \div 2])
                THEN sift_up(Swap(h, p, p \div 2), start, p \div 2)
                ELSE h : h \in {data}, p \in {pos}} : TRUE

heap_push(data, e) ==
  CHOOSE r \in {sift_up(Append(h, e), 1, Len(h) + 1) : h \in {data}} : TRUE

\* The greater child under Reverse (the lighter one; the right one on a tie).
GreaterChild(h, c) == IF rev_le(h[c], h[c + 1]) THEN c + 1 ELSE c

RECURSIVE sift_down_to_bottom(_, _, _)
sift_down_to_bottom(data, start, pos) ==
  CHOOSE r \in {IF 2 * p + 1 <= Len(h)
                THEN sift_down_to_bottom(Swap(h, p, GreaterChild(h, 2 * p)), start,
                                         GreaterChild(h, 2 * p))
                ELSE IF 2 * p = Len(h)
                THEN sift_up(Swap(h, p, 2 * p), start, 2 * p)
                ELSE sift_up(h, start, p) : h \in {data}, p \in {pos}} : TRUE

\* BinaryHeap::pop: the root, and the heap that is left.
heap_pop(data) ==
  CHOOSE r \in {IF Len(h) = 1
                THEN [item |-> h[1], heap |-> <<>>]
                ELSE [item |-> h[1],
                      heap |-> sift_down_to_bottom(
                                 [SubSeq(h, 1, Len(h) - 1) EXCEPT ![1] = h[Len(h)]], 1, 1)]
                : h \in {data}} : TRUE

RECURSIVE sift_down(_, _)
sift_down(data, pos) ==
  CHOOSE r \in {IF 2 * p + 1 <= Len(h)
                THEN IF rev_le(h[GreaterChild(h, 2 * p)], h[p]) THEN h
                     ELSE sift_down(Swap(h, p, GreaterChild(h, 2 * p)),
                                    GreaterChild(h, 2 * p))
                ELSE IF 2 * p = Len(h) /\ ~rev_le(h[2 * p], h[p])
                THEN Swap(h, p, 2 * p)
                ELSE h : h \in {data}, p \in {pos}} : TRUE

RECURSIVE rebuild(_, _)
rebuild(data, n) ==
  CHOOSE r \in {IF n = 0 THEN h ELSE rebuild(sift_down(h, n), n - 1) : h \in {data}} : TRUE

\* collect::<BinaryHeap<_>>(): BinaryHeap::from(vec)
heap_from(v) == rebuild(v, Len(v) \div 2)

(***************************************************************************)
(* The search state of one call and the loop bodies of the three engines.  *)
(***************************************************************************)
SearchState(f, v, r, l) == [frontier |-> f, visited |-> v, result |-> r, log |-> l]

\* Mutation: the visited check is skipped.
Mutant_IsVisited_never(v, s) == FALSE

\* visited.contains(&current_state)
IsVisited(v, s) == s \in v

\* Mutation: states are marked visited when they are pushed.
Mutant_VisitedInsert_at_push(v, s, items) ==
  v \cup {s} \cup {items[i].state : i \in 1..Len(items)}

\* Mutation: the expanded state is not inserted into visited.
Mutant_VisitedInsert_forgotten(v, s, items) == v

\* visited.insert(current_state), after the neighbors were pushed
VisitedInsert(v, s, items) == v \cup {s}

\* Mutation: end_state_fn is asked about the accumulator of the popped entry.
Mutant_compute_neighbor_fn_end_on_old_acc(acc, s) ==
  LET a2 == acc_fn(acc, s)
      fired == end_state_fn(acc, s, targets, minSteps)
      ns == neighbor_fn(graph, s)
  IN  IF fired
      THEN [break |-> TRUE, acc |-> a2, items |-> <<>>,
            log |-> <<EvAcc(s, acc, a2), EvEnd(s, acc, TRUE)>>]
      ELSE [break |-> FALSE, acc |-> a2,
            items |-> [i \in 1..Len(ns) |-> [accumulator |-> a2, state |-> ns[i]]],
            log |-> <<EvAcc(s, acc, a2), EvEnd(s, acc, FALSE), Ev("neighbor_fn", s)>>]

\* Mutation: the neighbors are pushed with the accumulator of the popped
\* entry instead of the one acc_fn produced.
Mutant_compute_neighbor_fn_stale_acc(acc, s) ==
  LET a2 == acc_fn(acc, s)
      fired == end_state_fn(a2, s, targets, minSteps)
      ns == neighbor_fn(graph, s)
  IN  IF fired
      THEN [break |-> TRUE, acc |-> a2, items |-> <<>>,
            log |-> <<EvAcc(s, acc, a2), EvEnd(s, a2, TRUE)>>]
      ELSE [break |-> FALSE, acc |-> a2,
            items |-> [i \in 1..Len(ns) |-> [accumulator |-> acc, state |-> ns[i]]],
            log |-> <<EvAcc(s, acc, a2), EvEnd(s, a2, FALSE), Ev("neighbor_fn", s)>>]

\* Mutation: every neighbor is handed to the loop twice.
Mutant_compute_neighbor_fn_doubled(acc, s) ==
  LET a2 == acc_fn(acc, s)
      fired == end_state_fn(a2, s, targets, minSteps)
      ns == neighbor_fn(graph, s) \o neighbor_fn(graph, s)
  IN  IF fired
      THEN [break |-> TRUE, acc |-> a2, items |-> <<>>,
            log |-> <<EvAcc(s, acc, a2), EvEnd(s, a2, TRUE)>>]
      ELSE [break |-> FALSE, acc |-> a2,
            items |-> [i \in 1..Len(ns) |-> [accumulator |-> a2, state |-> ns[i]]],
            log |-> <<EvAcc(s, acc, a2), EvEnd(s, a2, FALSE), Ev("neighbor_fn", s)>>]

\* The closure dfs, bfs, dfs_full and bfs_full hand to try_*_full: acc_fn,
\* then end_state_fn on the new accumulator, then neighbor_fn.
compute_neighbor_fn(acc, s) ==
  LET a2 == acc_fn(acc, s)
      fired == end_state_fn(a2, s, targets, minSteps)
      ns == neighbor_fn(graph, s)
  IN  IF fired
      THEN [break |-> TRUE, acc |-> a2, items |-> <<>>,
            log |-> <<EvAcc(s, acc, a2), EvEnd(s, a2, TRUE)>>]
      ELSE [break |-> FALSE, acc |-> a2,
            items |-> [i \in 1..Len(ns) |-> [accumulator |-> a2, state |-> ns[i]]],
            log |-> <<EvAcc(s, acc, a2), EvEnd(s, a2, FALSE), Ev("neighbor_fn", s)>>]

\* Mutation: the last entry is read but left on the stack.
Mutant_stack_pop_peek(f) == [item |-> f[Len(f)], rest |-> f]

\* work_stack.pop(): the last entry
stack_pop(f) == [item |-> f[Len(f)], rest |-> SubSeq(f, 1, Len(f) - 1)]

\* Mutation: the queue is popped at the back.
Mutant_queue_pop_back(f) == [item |-> f[Len(f)], rest |-> SubSeq(f, 1, Len(f) - 1)]

\* work_queue.pop_front(): the first entry
queue_pop_front(f) == [item |-> f[1], rest |-> SubSeq(f, 2, Len(f))]

PushLog(items) == [i \in 1..Len(items) |-> Ev("push", items[i].state)]

\* Mutation: a break of the closure does not end the loop.
Mutant_LoopBody_no_break(st, p) ==
  LET e == p.item
      l0 == Append(st.log, Ev("pop", e.state))
  IN  IF IsVisited(st.visited, e.state)
      THEN SearchState(p.rest, st.visited, Pending, l0)
      ELSE LET r == compute_neighbor_fn(e.accumulator, e.state)
           IN  SearchState(p.rest \o r.items,
                           VisitedInsert(st.visited, e.state, r.items),
                           Pending,
                           l0 \o r.log \o PushLog(r.items)
                              \o <<Ev("insert", e.state)>>)

\* Mutation: the terminal state is inserted into visited before the break.
Mutant_LoopBody_insert_on_break(st, p) ==
  LET e == p.item
      l0 == Append(st.log, Ev("pop", e.state))
  IN  IF IsVisited(st.visited, e.state)
      THEN SearchState(p.rest, st.visited, Pending, l0)
      ELSE LET r == compute_neighbor_fn(e.accumulator, e.state)
           IN  IF r.break
               THEN SearchState(p.rest, st.visited \cup {e.state},
                                Some2(r.acc, e.state), l0 \o r.log)
               ELSE SearchState(p.rest \o r.items,
                                VisitedInsert(st.visited, e.state, r.items),
                                Pending,
                                l0 \o r.log \o PushLog(r.items)
                                   \o <<Ev("insert", e.state)>>)

\* One iteration of the loop of try_dfs_full / try_bfs_full on a popped entry.
LoopBody(st, p) ==
  LET e == p.item
      l0 == Append(st.log, Ev("pop", e.state))
  IN  IF IsVisited(st.visited, e.state)
      THEN SearchState(p.rest, st.visited, Pending, l0)
      ELSE LET r == compute_neighbor_fn(e.accumulator, e.state)
           IN  IF r.break
               THEN SearchState(p.rest, st.visited, Some2(r.acc, e.state), l0 \o r.log)
               ELSE SearchState(p.rest \o r.items,
                                VisitedInsert(st.visited, e.state, r.items),
                                Pending,
                                l0 \o r.log \o PushLog(r.items)
                                   \o <<Ev("insert", e.state)>>)

try_dfs_full_step(st) == LoopBody(st, stack_pop(st.frontier))

try_bfs_full_step(st) == LoopBody(st, queue_pop_front(st.frontier))

RECURSIVE PushAll(_, _, _)
PushAll(data, items, i) ==
  CHOOSE r \in {IF i > Len(its) THEN h ELSE PushAll(heap_push(h, its[i]), its, i + 1)
                : h \in {data}, its \in {items}} : TRUE

PushLogW(items) ==
  [i \in 1..Len(items) |-> EvW(Ev("push", items[i].state), items[i].weight)]

\* Mutation: the kernel adds the popped weight to the weight neighbor_fn yields.
Mutant_dijkstra_full_step_adds_weight(st) ==
  LET p == heap_pop(st.frontier)
      e == p.item
      l0 == Append(st.log, EvW(Ev("pop", e.state), e.weight))
  IN  IF IsVisited(st.visited, e.state)
      THEN SearchState(p.heap, st.visited, Pending, l0)
      ELSE LET a2 == acc_fn(e.accumulator, e.state)
               fired == end_state_fn(a2, e.state, targets, minSteps)
               ns == neighbor_fn_w(graph, e.state, e.weight)
               items == [i \in 1..Len(ns) |->
                           StateWithWeight(a2, ns[i].state, e.weight + ns[i].weight)]
           IN  IF fired
               THEN SearchState(p.heap, st.visited, Some3(a2, e.state, e.weight),
                                l0 \o <<EvW(EvAcc(e.state, e.accumulator, a2), e.weight),
                                        EvW(EvEnd(e.state, a2, TRUE), e.weight)>>)
               ELSE SearchState(PushAll(p.heap, items, 1),
                                VisitedInsert(st.visited, e.state, items),
                                Pending,
                                l0 \o <<EvW(EvAcc(e.state, e.accumulator, a2), e.weight),
                                        EvW(EvEnd(e.state, a2, FALSE), e.weight),
                                        EvW(Ev("neighbor_fn", e.state), e.weight)>>
                                   \o PushLogW(items) \o <<Ev("insert", e.state)>>)

dijkstra_full_step(st) ==
  LET p == heap_pop(st.frontier)
      e == p.item
      l0 == Append(st.log, EvW(Ev("pop", e.state), e.weight))
  IN  IF IsVisited(st.visited, e.state)
      THEN SearchState(p.heap, st.visited, Pending, l0)
      ELSE LET a2 == acc_fn(e.accumulator, e.state)
               fired == end_state_fn(a2, e.state, targets, minSteps)
               ns == neighbor_fn_w(graph, e.state, e.weight)
               items == [i \in 1..Len(ns) |->
                           StateWithWeight(a2, ns[i].state, ns[i].weight)]
           IN  IF fired
               THEN SearchState(p.heap, st.visited, Some3(a2, e.state, e.weight),
                                l0 \o <<EvW(EvAcc(e.state, e.accumulator, a2), e.weight),
                                        EvW(EvEnd(e.state, a2, TRUE), e.weight)>>)
               ELSE SearchState(PushAll(p.heap, items, 1),
                                VisitedInsert(st.visited, e.state, items),
                                Pending,
                                l0 \o <<EvW(EvAcc(e.state, e.accumulator, a2), e.weight),
                                        EvW(EvEnd(e.state, a2, FALSE), e.weight),
                                        EvW(Ev("neighbor_fn", e.state), e.weight)>>
                                   \o PushLogW(items) \o <<Ev("insert", e.state)>>)

KernelStep(m, st) ==
  CASE m = "dfs" -> try_dfs_full_step(st)
    [] m = "bfs" -> try_bfs_full_step(st)
    [] m = "dijkstra" -> dijkstra_full_step(st)

\* The whole loop of a *_full call: iterate until a break or an empty frontier.
RECURSIVE RunFull(_, _, _)
RunFull(m, st, fuel) ==
  IF st.result # Pending \/ fuel = 0 THEN st
  ELSE IF st.frontier = <<>> THEN [st EXCEPT !.result = NoneResult]
  ELSE RunFull(m, KernelStep(m, st), fuel - 1)

(***************************************************************************)
(* The seeds of a call.                                                    *)
(***************************************************************************)
\* try_dfs: vec![(acc_init, start)]; try_bfs: VecDeque::from([(acc_init, start)])
SeedPair(n0, s) == [accumulator |-> acc_init(n0), state |-> s]

\* dijkstra_starts_iter: one StateWithWeight per start, collected into the heap
SeedHeap(n0, ss) ==
  heap_from([i \in 1..Len(ss) |-> StateWithWeight(acc_init(n0), ss[i].state, ss[i].weight)])

\* iter::once(x)
iter_once(x) == <<x>>

\* dijkstra_starts_iter up to the call of dijkstra_full: the heap of the starts
dijkstra_starts_iter(ss, n0) == SeedHeap(n0, ss)

\* Mutation: the wrapper drops the start weight.
Mutant_dijkstra_weight_dropped(start, start_weight, n0) ==
  dijkstra_starts_iter(iter_once([state |-> start, weight |-> 0]), n0)

\* dijkstra: dijkstra_starts_iter(iter::once((start, start_weight)), ..)
dijkstra(start, start_weight, n0) ==
  dijkstra_starts_iter(iter_once([state |-> start, weight |-> start_weight]), n0)

InitialFrontier(m, n0, ss) ==
  IF m = "dijkstra" THEN SeedHeap(n0, ss) ELSE <<SeedPair(n0, ss[1].state)>>

\* The caller adds one more seed to the frontier a *_full call handed back.
AddSeed(m, f, n0, x) ==
  IF m = "dijkstra" THEN heap_push(f, StateWithWeight(acc_init(n0), x, 0))
  ELSE Append(f, SeedPair(n0, x))

(***************************************************************************)
(* The state machine.                                                      *)
(***************************************************************************)
Start(s, w) == [state |-> s, weight |-> w]

DijkstraStarts ==
  {<<Start("a", 0)>>, <<Start("a", 0), Start("b", 0)>>, <<Start("a", 1), Start("b", 0)>>}

\* dijkstra(start, start_weight, ..): one start with its weight
SingleStarts == {<<Start("a", w)>> : w \in 0..MaxWeight}

NoFirst == [result |-> Pending, visited |-> {}, frontier |-> <<>>]

\* No second call.
IdlePeer ==
  [pc |-> "idle", start |-> NoState, frontier |-> <<>>, visited |-> {},
   result |-> Pending, begun |-> 0, ended |-> 0]

\* The arguments and the fresh state of the call.
InitCall ==
  /\ mode \in {"dfs", "bfs", "dijkstra"}
  /\ \/ /\ mode \in {"dfs", "bfs"}
        /\ entry = mode
        /\ graph \in UnitGraphs \cup {SelfLoopGraph}
        /\ targets \in SUBSET States
        /\ starts = <<Start("a", 0)>>
        /\ minSteps \in {0, 1}
        /\ accInit \in {-1, 0}
     \/ /\ mode = "dijkstra"
        /\ graph \in WeightedGraphs \cup {TriangleGraph, NegativeGraph}
        /\ \/ entry = "dijkstra_starts_iter" /\ starts \in DijkstraStarts
           \/ entry = "dijkstra" /\ starts \in SingleStarts
        /\ minSteps = 0
        /\ accInit = 0
        /\ targets \in SUBSET GenStates
  /\ frontier = <<>>
  /\ visited = {}
  /\ result = Pending
  /\ pc = "init"
  /\ log = <<>>
  /\ pops = 0
  /\ phase = 1
  /\ extra = NoState
  /\ first = NoFirst

Init == InitCall /\ peer = IdlePeer /\ panicOn = {}

Inputs == <<mode, entry, graph, starts, targets, minSteps, accInit, panicOn>>

\* dfs / bfs / dijkstra / dijkstra_starts_iter: seed the frontier and enter
\* the loop.
Call ==
  /\ pc = "init"
  /\ frontier' = IF entry = "dijkstra"
                 THEN dijkstra(starts[1].state, starts[1].weight, accInit)
                 ELSE InitialFrontier(mode, accInit, starts)
  /\ pc' = "run"
  /\ UNCHANGED <<Inputs, visited, result, log, pops, phase, extra, first, peer>>

Apply(st) ==
  /\ frontier' = st.frontier
  /\ visited' = st.visited
  /\ result' = st.result
  /\ log' = st.log
  /\ pops' = pops + 1
  /\ pc' = IF st.result = Pending THEN "run" ELSE "done"
  /\ UNCHANGED <<Inputs, phase, extra, first, peer>>

Current == SearchState(frontier, visited, result, log)

DfsStep ==
  /\ pc = "run" /\ mode = "dfs" /\ frontier # <<>> /\ pops < MaxPops
  /\ Apply(try_dfs_full_step(Current))

BfsStep ==
  /\ pc = "run" /\ mode = "bfs" /\ frontier # <<>> /\ pops < MaxPops
  /\ Apply(try_bfs_full_step(Current))

DijkstraStep ==
  /\ pc = "run" /\ mode = "dijkstra" /\ frontier # <<>> /\ pops < MaxPops
  /\ Apply(dijkstra_full_step(Current))

\* The frontier is empty: ControlFlow::Continue(visited) / None.
Exhausted ==
  /\ pc = "run" /\ frontier = <<>>
  /\ result' = NoneResult
  /\ pc' = "done"
  /\ UNCHANGED <<Inputs, frontier, visited, log, pops, phase, extra, first, peer>>

\* After a break the caller resumes with the frontier and visited set handed
\* back, plus one extra seed.
Resume ==
  /\ pc = "done" /\ phase = 1 /\ result.kind = "Some"
  /\ \E x \in States :
       /\ extra' = x
       /\ frontier' = AddSeed(mode, frontier, accInit, x)
  /\ first' = [result |-> result, visited |-> visited, frontier |-> frontier']
  /\ phase' = 2
  /\ pc' = "run"
  /\ result' = Pending
  /\ log' = <<>>
  /\ pops' = 0
  /\ UNCHANGED <<Inputs, visited, peer>>

Next == Call \/ DfsStep \/ BfsStep \/ DijkstraStep \/ Exhausted \/ Resume

Spec == Init /\ [][Next]_vars

\* A call is a synchronous loop on the calling thread: it always takes its
\* next step. Whether the caller resumes is the caller's choice.
KernelProgress == Call \/ DfsStep \/ BfsStep \/ DijkstraStep \/ Exhausted

\* The calls whose termination is checked: every graph, engine and start
\* set, with an end_state_fn that never fires or that accepts the state c.
FairInit == Init /\ accInit = 0 /\ minSteps = 0 /\ targets \in {{}, {"c"}}

FairSpec == FairInit /\ [][Next]_vars /\ WF_vars(KernelProgress)

(***************************************************************************)
(* Two calls at once: Day16Part2 maps find_num_energized, one dfs call per *)
(* start, over a parallel iterator; the closures read the shared grid.     *)
(***************************************************************************)
\* Mutation: the calls share one visited set.
Mutant_OwnVisited_shared(own, other) == own \cup other

\* try_dfs: HashSet::default(), a visited set of the call's own
OwnVisited(own, other) == own

\* The second call is made: its frontier is seeded with its start.
PeerCall ==
  /\ peer.pc = "init"
  /\ peer' = [peer EXCEPT !.pc = "run",
                          !.frontier = <<SeedPair(accInit, peer.start)>>,
                          !.begun = pops]
  /\ UNCHANGED <<Inputs, frontier, visited, result, pc, log, pops, phase, extra, first>>

\* One loop iteration of the second call.
PeerStep ==
  /\ peer.pc = "run" /\ peer.frontier # <<>>
  /\ LET st == KernelStep(mode, SearchState(peer.frontier,
                                            OwnVisited(peer.visited, visited),
                                            Pending, <<>>))
     IN  peer' = [peer EXCEPT !.frontier = st.frontier,
                              !.visited = st.visited,
                              !.result = st.result,
                              !.pc = IF st.result = Pending THEN "run" ELSE "done",
                              !.ended = pops]
  /\ UNCHANGED <<Inputs, frontier, visited, result, pc, log, pops, phase, extra, first>>

\* The second call's frontier is empty: None.
PeerExhausted ==
  /\ peer.pc = "run" /\ peer.frontier = <<>>
  /\ peer' = [peer EXCEPT !.result = NoneResult, !.pc = "done", !.ended = pops]
  /\ UNCHANGED <<Inputs, frontier, visited, result, pc, log, pops, phase, extra, first>>

\* dfs or bfs calls from two starts, with an end_state_fn that never fires
\* (as in Day16) or that accepts the state c.
ParInit ==
  /\ InitCall
  /\ mode \in {"dfs", "bfs"} /\ accInit = 0 /\ minSteps = 0
  /\ targets \in {{}, {"c"}}
  /\ peer \in {[IdlePeer EXCEPT !.pc = "init", !.start = s] : s \in States}
  /\ panicOn = {}

ParNext ==
  \/ Call \/ DfsStep \/ BfsStep \/ Exhausted
  \/ PeerCall \/ PeerStep \/ PeerExhausted

ParSpec == ParInit /\ [][ParNext]_vars

(***************************************************************************)
(* A caller closure that panics: neighbor_fn with an unchecked lookup, as  *)
(* the unwrap() of Day16Part1::find_num_energized. The kernel calls the    *)
(* closure without catching anything, so the panic unwinds through it.     *)
(***************************************************************************)
Panicked(s) == [kind |-> "Panic", state |-> s]

\* The entry the next loop iteration pops, and what it leaves behind.
NextPop ==
  CASE mode = "dfs" -> stack_pop(frontier)
    [] mode = "bfs" -> queue_pop_front(frontier)
    [] mode = "dijkstra" -> [item |-> heap_pop(frontier).item,
                             rest |-> heap_pop(frontier).heap]

\* The next iteration reaches neighbor_fn on a state it panics on.
WillPanic ==
  /\ pc = "run" /\ frontier # <<>>
  /\ LET e == NextPop.item
     IN  /\ ~IsVisited(visited, e.state)
         /\ ~end_state_fn(acc_fn(e.accumulator, e.state), e.state, targets, minSteps)
         /\ e.state \in panicOn

\* The closure calls made up to the panic.
PanicLog(e) ==
  LET a2 == acc_fn(e.accumulator, e.state)
      l == <<Ev("pop", e.state), EvAcc(e.state, e.accumulator, a2),
             EvEnd(e.state, a2, FALSE), Ev("neighbor_fn", e.state)>>
  IN  IF mode = "dijkstra" THEN [i \in 1..Len(l) |-> EvW(l[i], e.weight)] ELSE l

\* Mutation: the kernel catches the panic and goes on as if the state had no
\* neighbors.
Mutant_Unwound_caught(p) ==
  SearchState(p.rest, visited \cup {p.item.state}, Pending,
              log \o PanicLog(p.item) \o <<Ev("insert", p.item.state)>>)

\* The panic leaves the loop: no push, no insert, no Some and no None.
Unwound(p) ==
  SearchState(p.rest, visited, Panicked(p.item.state), log \o PanicLog(p.item))

Unwind ==
  /\ WillPanic /\ pops < MaxPops
  /\ Apply(Unwound(NextPop))

SafeDfsStep == ~WillPanic /\ DfsStep

SafeBfsStep == ~WillPanic /\ BfsStep

SafeDijkstraStep == ~WillPanic /\ DijkstraStep

\* Calls whose neighbor_fn panics on no state, on b or on c.
PanicInit ==
  /\ InitCall /\ peer = IdlePeer
  /\ accInit = 0 /\ minSteps = 0
  /\ targets \in {{}, {"c"}}
  /\ panicOn \in {{}, {"b"}, {"c"}}

PanicNext ==
  \/ Call \/ SafeDfsStep \/ SafeBfsStep \/ SafeDijkstraStep
  \/ Exhausted \/ Unwind

PanicSpec == PanicInit /\ [][PanicNext]_vars

(***************************************************************************)
(* Day21Part1::step(step_count): bfs with a depth counter from 0, an       *)
(* end_state_fn that fires once the depth exceeds step_count + 1 and       *)
(* otherwise sets the state's bit in one of two bit-vectors.               *)
(***************************************************************************)
step_count_inner(step_count) == step_count + 1

\* The step_count of the call: end_state_fn fires when
\* depth > step_count_inner, that is depth >= minSteps.
StepCount == minSteps - 2

\* The end_state_fn calls that did not fire and so set a bit.
BitSets == {i \in 1..Len(log) : log[i].op = "end_state_fn" /\ ~log[i].ret}

\* depth.is_odd(): occupied_even_step.replace(idx, true)
occupied_even_step == {log[i].state : i \in {j \in BitSets : log[j].acc.n % 2 = 1}}

\* otherwise: occupied_odd_step.replace(idx, true)
occupied_odd_step == {log[i].state : i \in {j \in BitSets : log[j].acc.n % 2 = 0}}

\* assert!(!replace(..)): the bit was already set by an earlier call.
AppliedTwice ==
  \E i \in BitSets, j \in BitSets :
    i < j /\ log[i].state = log[j].state /\ log[i].acc.n % 2 = log[j].acc.n % 2

Day21Init ==
  /\ mode = "bfs" /\ entry = "bfs"
  /\ graph \in UnitGraphs \cup {SelfLoopGraph}
  /\ starts = <<Start("a", 0)>>
  /\ accInit = 0
  /\ targets = States
  /\ \E n \in 0..MaxStep : minSteps = step_count_inner(n) + 1
  /\ panicOn = {}
  /\ frontier = <<>> /\ visited = {} /\ result = Pending /\ pc = "init"
  /\ log = <<>> /\ pops = 0 /\ phase = 1 /\ extra = NoState /\ first = NoFirst
  /\ peer = IdlePeer

Day21Next == Call \/ BfsStep \/ Exhausted

Day21Spec == Day21Init /\ [][Day21Next]_vars

(***************************************************************************)
(* Graph-theoretic yardsticks the properties are measured against.         *)
(***************************************************************************)
Succ(s) == {t \in States : <<s, t>> \in DOMAIN graph}

StartStates == {starts[i].state : i \in 1..Len(starts)}

\* The states within k edges of the set S.
RECURSIVE Within(_, _)
Within(S, k) ==
  IF k = 0 THEN S
  ELSE LET W == Within(S, k - 1) IN W \cup UNION {Succ(s) : s \in W}

Reachable == Within(StartStates, Cardinality(States))

\* The edge distance from the start states to a reachable state t.
Dist(t) == CHOOSE k \in 0..Cardinality(States) :
             /\ t \in Within(StartStates, k)
             /\ \A j \in 0..(k - 1) : t \notin Within(StartStates, j)

\* The cumulative weights of the paths of at most k edges from a start entry to t.
RECURSIVE PathWeights(_, _)
PathWeights(t, k) ==
  {starts[i].weight : i \in {j \in 1..Len(starts) : starts[j].state = t}}
  \cup (IF k = 0 THEN {}
        ELSE UNION {{w + graph[e] : w \in PathWeights(e[1], k - 1)} :
                      e \in {d \in DOMAIN graph : d[2] = t}})

NonNegative == \A e \in DOMAIN graph : graph[e] >= 0

\* The weights of the paths to the states end_state_fn accepts.
TargetWeights == UNION {PathWeights(t, Cardinality(States)) : t \in targets}

Done1 == pc = "done" /\ phase = 1

\* end_state_fn depends on the state alone: the count condition always holds.
StateOnly == minSteps = 0

Calls(op, s) == {i \in 1..Len(log) : log[i].op = op /\ log[i].state = s}

(***************************************************************************)
(* Properties.                                                             *)
(***************************************************************************)
\* C1: when end_state_fn is "state = T" and T is reachable from the start,
\* dfs and bfs return Some with state T.
C1_ReachableTargetFound ==
  \A t \in States :
    (Done1 /\ mode \in {"dfs", "bfs"} /\ StateOnly /\ targets = {t} /\ t \in Reachable)
      => (result.kind = "Some" /\ result.state = t)

C1_Witness ==
  /\ Done1 /\ mode = "dfs" /\ StateOnly /\ targets = {"d"}
  /\ graph = LineGraph
  /\ result.kind = "Some" /\ result.state = "d"

\* C2: bfs returns a matching state at minimum edge count: no state accepted
\* by end_state_fn is reachable in fewer edges than the state returned.
C2_BfsMinimumEdgeCount ==
  (Done1 /\ mode = "bfs" /\ StateOnly)
    => /\ (targets \cap Reachable # {}) => result.kind = "Some"
       /\ result.kind = "Some" =>
            /\ result.state \in targets \cap Reachable
            /\ \A t \in targets \cap Reachable : Dist(result.state) <= Dist(t)

C2_Witness ==
  /\ Done1 /\ mode = "bfs" /\ StateOnly
  /\ result.kind = "Some"
  /\ \E t \in targets \cap Reachable : Dist(result.state) < Dist(t)
  /\ Dist(result.state) >= 1

\* C3: with non-negative increments dijkstra_starts_iter returns a matching
\* state whose cumulative weight is the minimum over all paths from any start
\* entry to any matching state; on the triangle from a to c that weight is 2.
C3_DijkstraMinimumWeight ==
  (Done1 /\ mode = "dijkstra" /\ StateOnly /\ NonNegative)
    => /\ (TargetWeights # {}) => result.kind = "Some"
       /\ result.kind = "Some" =>
            /\ result.state \in targets
            /\ result.weight \in TargetWeights
            /\ \A w \in TargetWeights : result.weight <= w
       /\ (graph = TriangleGraph /\ starts = <<Start("a", 0)>> /\ targets = {"c"})
            => (result.kind = "Some" /\ result.weight = 2)

C3_Witness ==
  /\ Done1 /\ mode = "dijkstra" /\ graph = TriangleGraph
  /\ starts = <<Start("a", 0)>> /\ targets = {"c"}
  /\ result.kind = "Some" /\ result.state = "c" /\ result.weight = 2
  /\ result.acc.path = <<"a", "b", "c">>

\* C4: within one call neighbor_fn is invoked at most once on any state: a
\* state popped again after it was expanded is discarded.
C4_ExpandedAtMostOnce ==
  \A s \in States : Cardinality(Calls("neighbor_fn", s)) <= 1

C4_Witness ==
  \E s \in States :
    /\ Cardinality(Calls("pop", s)) >= 2
    /\ Cardinality(Calls("neighbor_fn", s)) = 1
    /\ mode = "dijkstra"

\* Scenario C: the 2-cycle from a, end_state_fn = "count >= 1 and state = a".
ScenarioC ==
  /\ Done1 /\ mode \in {"dfs", "bfs"} /\ graph = TwoCycleGraph
  /\ targets = {"a"} /\ minSteps = 1

\* C5 (as stated): on the 2-cycle dfs and bfs return Some((2, a)).
C5_Original ==
  ScenarioC => (result.kind = "Some" /\ result.acc.n = 2 /\ result.state = "a")

\* C5 (amended): on the 2-cycle a is expanded once and its second entry, pushed
\* as successor of b, is discarded: with a count that is 0 at the start state
\* the call returns None; with acc_init = 0 the first pop already returns
\* Some((1, a)).
C5_TwoCycleStartNotReexpanded ==
  ScenarioC =>
    /\ Cardinality(Calls("acc_fn", "a")) = 1
    /\ accInit = 0 => result = Some2([n |-> 1, path |-> <<"a">>], "a")
    /\ accInit = -1 =>
         /\ result = NoneResult
         /\ visited = {"a", "b"}
         /\ Cardinality(Calls("pop", "a")) = 2

C5_Witness ==
  /\ ScenarioC /\ accInit = -1 /\ mode = "bfs"
  /\ result = NoneResult
  /\ Cardinality(Calls("pop", "a")) = 2
  /\ Cardinality(Calls("push", "a")) = 1

\* C8 (as stated): the count bfs returns with the terminal state is the number
\* of edges from the start to it; on the line a -> b -> c -> d it is 3.
C8_Original ==
  (Done1 /\ mode = "bfs" /\ StateOnly /\ result.kind = "Some")
    => /\ result.acc.n = Dist(result.state)
       /\ (graph = LineGraph /\ targets = {"d"}) => result.acc.n = 3

\* C8 (amended): acc_fn is applied to the start state too, so the count bfs
\* returns is acc_init plus the number of states on a shortest path, i.e.
\* acc_init + edges + 1: on the line, Some((4, d)) from acc_init = 0 and
\* Some((3, d)) from acc_init = -1.
C8_BfsCountsStatesOnShortestPath ==
  (Done1 /\ mode = "bfs" /\ StateOnly /\ result.kind = "Some")
    => /\ result.acc.n = accInit + Dist(result.state) + 1
       /\ Len(result.acc.path) = Dist(result.state) + 1
       /\ (graph = LineGraph /\ targets = {"d"}) =>
            /\ result.state = "d"
            /\ result.acc.n = IF accInit = 0 THEN 4 ELSE 3

C8_Witness ==
  /\ Done1 /\ mode = "bfs" /\ StateOnly /\ graph = LineGraph /\ targets = {"d"}
  /\ accInit = 0
  /\ result = Some2([n |-> 4, path |-> <<"a", "b", "c", "d">>], "d")

EndFired == {i \in 1..Len(log) : log[i].op = "end_state_fn" /\ log[i].ret}

NoNeighbors == \A s \in StartStates : Succ(s) = {}

\* C9: a call returns None exactly when the frontier was emptied without
\* end_state_fn ever returning true, and Some as soon as end_state_fn returns
\* true; a start without neighbors that end_state_fn rejects yields None.
C9_NoneIffExhausted ==
  /\ pc = "run" => (EndFired = {} /\ result = Pending)
  /\ pc = "done" =>
       /\ result.kind \in {"None", "Some"}
       /\ result.kind = "None" <=> (frontier = <<>> /\ EndFired = {})
       /\ result.kind = "Some" <=> EndFired = {Len(log)}
       /\ result.kind = "Some" => log[Len(log)].state = result.state
  /\ (Done1 /\ NoNeighbors /\ StartStates \cap targets = {}) => result = NoneResult

C9_Witness ==
  /\ Done1 /\ mode = "dijkstra" /\ NoNeighbors /\ StartStates \cap targets = {}
  /\ Len(starts) = 2 /\ targets # {}
  /\ result = NoneResult

\* The single uninterrupted call over the total seed set: the first call's
\* seeds and the extra seed, from an empty visited set.
SingleCall ==
  RunFull(mode,
          SearchState(AddSeed(mode, InitialFrontier(mode, accInit, starts), accInit, extra),
                      {}, Pending, <<>>),
          MaxPops)

\* The states reachable from S within k edges without passing through V.
RECURSIVE WithinAvoiding(_, _, _)
WithinAvoiding(S, V, k) ==
  IF k = 0 THEN S \ V
  ELSE LET W == WithinAvoiding(S, V, k - 1)
       IN  W \cup (UNION {Succ(s) : s \in W} \ V)

SeqStates(f) == {f[i].state : i \in 1..Len(f)}

\* C6 (as stated): the call resumed from the residual frontier and visited
\* set plus one extra seed returns what a single uninterrupted call over the
\* total seed set returns.
C6_Original ==
  (pc = "done" /\ phase = 2) => result = SingleCall.result

\* C6 (amended): the resumed call continues the first call: it expands no
\* state the first call expanded; if it exhausts its frontier its visited
\* set is the first call's plus everything reachable from the residual
\* frontier and the extra seed outside that set; if it returns Some (for an
\* end_state_fn of the state alone) the state is accepted and reachable from
\* the total seed set and the single uninterrupted call returns Some too,
\* though not necessarily the same state.
C6_ResumedCallContinues ==
  phase = 2 =>
    /\ first.visited \subseteq visited
    /\ \A s \in first.visited :
         Calls("acc_fn", s) = {} /\ Calls("neighbor_fn", s) = {}
    /\ (pc = "done" /\ result = NoneResult) =>
         visited = first.visited
                   \cup WithinAvoiding(SeqStates(first.frontier), first.visited,
                                       Cardinality(States))
    /\ (pc = "done" /\ result.kind = "Some" /\ StateOnly) =>
         /\ result.state \in targets
         /\ result.state \in Within(StartStates \cup {extra}, Cardinality(States))
         /\ SingleCall.result.kind = "Some"

C6_Witness ==
  /\ pc = "done" /\ phase = 2 /\ StateOnly /\ mode = "dfs"
  /\ result.kind = "Some"
  /\ SingleCall.result.kind = "Some"
  /\ SingleCall.result.state # result.state
  /\ \E s \in first.visited : Calls("pop", s) # {}

\* C10: on a finite graph every call terminates, by an early return or by
\* emptying the frontier, cycles included.
C10_EveryCallTerminates == (pc = "run") ~> (pc = "done")

C10_Witness ==
  /\ Done1 /\ mode = "dijkstra" /\ result = NoneResult
  /\ \E s \in States, t \in States :
       s # t /\ <<s, t>> \in DOMAIN graph /\ <<t, s>> \in DOMAIN graph
       /\ {s, t} \subseteq visited

\* The visited set as it was when log entry i was written: what the call was
\* handed plus the states inserted before.
VisitedAt(i) ==
  first.visited \cup {log[j].state : j \in {k \in 1..(i - 1) : log[k].op = "insert"}}

\* The pops of entries whose state was not yet visited.
FreshPops == {i \in 1..Len(log) : log[i].op = "pop" /\ log[i].state \notin VisitedAt(i)}

\* C11: for each popped, not-yet-visited state end_state_fn is evaluated
\* exactly once, right after acc_fn and on the accumulator acc_fn produced;
\* when it answers true the call returns that accumulator and state at once:
\* neighbor_fn is not invoked on the state and nothing more is pushed.
C11_EndStateRightAfterAccFn ==
  /\ \A i \in FreshPops :
       /\ i + 2 <= Len(log)
       /\ log[i + 1].op = "acc_fn" /\ log[i + 1].state = log[i].state
       /\ log[i + 2].op = "end_state_fn" /\ log[i + 2].state = log[i].state
       /\ log[i + 2].acc = log[i + 1].out
       /\ log[i + 2].ret =>
            /\ i + 2 = Len(log)
            /\ pc = "done"
            /\ result.kind = "Some"
            /\ result.acc = log[i + 1].out
            /\ result.state = log[i].state
       /\ ~log[i + 2].ret =>
            /\ i + 3 <= Len(log)
            /\ log[i + 3].op = "neighbor_fn" /\ log[i + 3].state = log[i].state
  /\ \A k \in 1..Len(log) :
       log[k].op = "end_state_fn" => (k - 2) \in FreshPops

C11_Witness ==
  /\ Done1 /\ mode = "bfs" /\ minSteps = 1 /\ accInit = 0
  /\ result.kind = "Some"
  /\ result.acc.n = 3
  /\ Succ(result.state) # {}
  /\ Cardinality({k \in 1..Len(log) : log[k].op = "end_state_fn"}) = 3
  /\ log[Len(log)].op = "end_state_fn" /\ log[Len(log)].ret

OpCount(op) == Cardinality({i \in 1..Len(log) : log[i].op = op})

\* C12 (as stated): acc_fn is invoked exactly once for every entry removed
\* from the frontier.
C12_Original == OpCount("acc_fn") = OpCount("pop")

\* C12 (amended): acc_fn is invoked exactly once for every popped entry whose
\* state is not yet visited, before that state is inserted into the visited
\* set, and not at all for a popped entry whose state is already visited.
C12_AccFnOncePerFreshPop ==
  /\ OpCount("acc_fn") = Cardinality(FreshPops)
  /\ \A i \in 1..Len(log) :
       log[i].op = "pop" =>
         IF i \in FreshPops
         THEN /\ i < Len(log)
              /\ log[i + 1].op = "acc_fn" /\ log[i + 1].state = log[i].state
              /\ log[i + 1].state \notin VisitedAt(i + 1)
         ELSE i = Len(log) \/ log[i + 1].op = "pop"
  /\ \A k \in 1..Len(log) : log[k].op = "acc_fn" => (k - 1) \in FreshPops

C12_Witness ==
  /\ pc = "done" /\ mode = "dfs" /\ phase = 1
  /\ OpCount("pop") = 4
  /\ OpCount("acc_fn") = 3
  /\ \E i \in 1..Len(log) : log[i].op = "pop" /\ i \notin FreshPops

\* The entries the current call started from.
SeedCount ==
  IF pc = "init" THEN 0
  ELSE IF phase = 2 THEN Len(first.frontier)
  ELSE IF mode = "dijkstra" THEN Len(starts) ELSE 1

\* C13: a state enters visited only when it is expanded, never when it is
\* pushed; every neighbor neighbor_fn yields is pushed, already visited or
\* queued or not, so a state may sit in the frontier several times.
C13_VisitedOnlyOnExpansion ==
  /\ visited = VisitedAt(Len(log) + 1)
  /\ \A i \in 1..Len(log) :
       log[i].op = "neighbor_fn" =>
         LET ns == neighbor_fn(graph, log[i].state)
         IN  /\ i + Len(ns) + 1 <= Len(log)
             /\ \A k \in 1..Len(ns) :
                  log[i + k].op = "push" /\ log[i + k].state = ns[k]
             /\ log[i + Len(ns) + 1] = Ev("insert", log[i].state)
  /\ \A i \in 1..Len(log) :
       log[i].op = "insert" => log[i].state \notin VisitedAt(i)
  /\ Len(frontier) = SeedCount + OpCount("push") - OpCount("pop")

C13_Witness ==
  /\ pc = "run" /\ phase = 1 /\ mode = "dijkstra"
  /\ \E i \in 1..Len(frontier), j \in 1..Len(frontier) :
       i < j /\ frontier[i].state = frontier[j].state
                /\ frontier[i].state \notin visited
  /\ \E k \in 1..Len(log) :
       log[k].op = "push" /\ log[k].state \in VisitedAt(k)

\* C14: under non-negative increments, whenever dijkstra expands a state (the
\* first pop of it), the weight of the popped entry is the minimum cumulative
\* weight of any path from any start entry to that state.
C14_ExpandedAtMinimumWeight ==
  (mode = "dijkstra" /\ phase = 1 /\ NonNegative) =>
    \A i \in 1..Len(log) :
      log[i].op = "acc_fn" =>
        /\ log[i].weight \in PathWeights(log[i].state, Cardinality(States))
        /\ \A w \in PathWeights(log[i].state, Cardinality(States)) : log[i].weight <= w

C14_Witness ==
  /\ mode = "dijkstra" /\ phase = 1 /\ NonNegative /\ Len(starts) = 1
  /\ \E i \in 1..Len(log), j \in 1..Len(log), k \in 1..Len(log) :
       /\ j < k /\ k < i
       /\ log[i].op = "acc_fn"
       /\ log[j].op = "push" /\ log[j].state = log[i].state
       /\ log[k].op = "push" /\ log[k].state = log[i].state
       /\ log[j].weight > log[k].weight
       /\ log[i].weight = log[k].weight

\* C15: a negative increment is not detected: there are inputs with one for
\* which dijkstra returns Some with a weight strictly greater than the minimum
\* over all paths to a matching state. The call still ends in None or Some,
\* and a Some carries an accepted state, the weight of an actual path to it
\* and the least weight that was pending when it was popped.
C15_NegativeIncrementUndetected ==
  (Done1 /\ mode = "dijkstra" /\ ~NonNegative) =>
    /\ result.kind \in {"None", "Some"}
    /\ (TargetWeights # {} /\ StateOnly) => result.kind = "Some"
    /\ result.kind = "Some" =>
         /\ result.state \in targets
         /\ result.weight \in PathWeights(result.state, Cardinality(States))
         /\ \A i \in 1..Len(frontier) : result.weight <= frontier[i].weight

C15_Witness ==
  /\ Done1 /\ mode = "dijkstra" /\ graph = NegativeGraph
  /\ starts = <<Start("a", 0)>> /\ targets = {"b"}
  /\ result.kind = "Some" /\ result.state = "b" /\ result.weight = 1
  /\ 0 \in TargetWeights
  /\ \E w \in TargetWeights : w < result.weight

\* The step in which a dfs or bfs call breaks.
BreakStep == pc = "run" /\ pc' = "done" /\ result'.kind = "Some" /\ mode \in {"dfs", "bfs"}

\* C16: on early termination dfs_full, bfs_full and try_*_full hand back the
\* break value and the terminal state with the remaining frontier, which is
\* the frontier as it was before the terminal entry was popped minus that
\* entry, the other entries in their order, and the visited set as it was.
C16_BreakReturnsRemainingFrontier ==
  [][BreakStep =>
       /\ frontier # <<>>
       /\ mode = "dfs" =>
            /\ frontier' = SubSeq(frontier, 1, Len(frontier) - 1)
            /\ result'.state = frontier[Len(frontier)].state
            /\ result'.acc = acc_fn(frontier[Len(frontier)].accumulator, result'.state)
       /\ mode = "bfs" =>
            /\ frontier' = Tail(frontier)
            /\ result'.state = Head(frontier).state
            /\ result'.acc = acc_fn(Head(frontier).accumulator, result'.state)
       /\ visited' = visited
       /\ result'.state \notin visited]_vars

C16_Witness ==
  /\ Done1 /\ mode = "dfs" /\ result.kind = "Some"
  /\ Len(frontier) = 2
  /\ frontier[1].state # frontier[2].state
  /\ visited = {"a"}
  /\ result.state \notin visited

\* The states a frontier was seeded with: the start entries and, after a
\* resumption, the extra seed.
SeedStates == StartStates \cup (IF phase = 2 THEN {extra} ELSE {})

\* p is a path of neighbor_fn edges from a seed.
IsSeedPath(p) ==
  /\ p # <<>>
  /\ p[1] \in SeedStates
  /\ \A k \in 1..(Len(p) - 1) : <<p[k], p[k + 1]>> \in DOMAIN graph

\* acc_fn folded from acc_init over the first i states of p.
RECURSIVE FoldAccFn(_, _)
FoldAccFn(p, i) ==
  IF i = 0 THEN acc_init(accInit) ELSE acc_fn(FoldAccFn(p, i - 1), p[i])

\* The accumulator a is the fold along a seed path that ends in s.
PathLocal(a, s) ==
  /\ IsSeedPath(a.path)
  /\ a.path[Len(a.path)] = s
  /\ a = FoldAccFn(a.path, Len(a.path))

\* C17: the accumulator is path-local: the accumulator returned, and the one
\* acc_fn produces at any expansion, is acc_fn folded from acc_init along one
\* actual path of neighbor_fn edges from a start entry to that state; an
\* entry waiting in the frontier carries the fold along a path to a
\* predecessor of its state.
C17_AccumulatorIsPathLocal ==
  /\ \A i \in 1..Len(log) :
       log[i].op = "acc_fn" =>
         /\ PathLocal(log[i].out, log[i].state)
         /\ log[i].out = acc_fn(log[i].arg, log[i].state)
  /\ result.kind = "Some" => PathLocal(result.acc, result.state)
  /\ \A i \in 1..Len(frontier) :
       LET a == frontier[i].accumulator
       IN  IF a.path = <<>>
           THEN a = acc_init(accInit) /\ frontier[i].state \in SeedStates
           ELSE /\ PathLocal(a, a.path[Len(a.path)])
                /\ <<a.path[Len(a.path)], frontier[i].state>> \in DOMAIN graph

C17_Witness ==
  /\ Done1 /\ mode = "bfs" /\ accInit = 0
  /\ result.kind = "Some"
  /\ result.acc = [n |-> 2, path |-> <<"a", "d">>]
  /\ "b" \in visited
  /\ \E i \in 1..Len(frontier) :
       /\ frontier[i].state = "d"
       /\ frontier[i].accumulator = [n |-> 2, path |-> <<"a", "b">>]

\* C18: eq, partial_cmp and cmp of StateWithWeight give what comparing the two
\* weights gives, whatever the accumulators and states are; so the heap of
\* Reverse(StateWithWeight) always pops an entry of minimum weight among the
\* pending ones.
C18_OrderedByWeightOnly ==
  mode = "dijkstra" =>
    /\ \A i \in 1..Len(frontier), j \in 1..Len(frontier) :
         LET x == frontier[i]
             y == frontier[j]
         IN  /\ eq(x, y) <=> x.weight = y.weight
             /\ cmp(x, y) = "Less" <=> x.weight < y.weight
             /\ cmp(x, y) = "Equal" <=> x.weight = y.weight
             /\ cmp(x, y) = "Greater" <=> x.weight > y.weight
             /\ partial_cmp(x, y) = [kind |-> "Some", ord |-> cmp(x, y)]
    /\ frontier # <<>> =>
         \A i \in 1..Len(frontier) :
           heap_pop(frontier).item.weight <= frontier[i].weight

C18_Witness ==
  /\ mode = "dijkstra" /\ pc = "run" /\ Len(frontier) = 3
  /\ \E i \in 1..3, j \in 1..3, k \in 1..3 :
       /\ frontier[i].weight = frontier[j].weight
       /\ frontier[i].state # frontier[j].state
       /\ frontier[i].accumulator # frontier[j].accumulator
       /\ eq(frontier[i], frontier[j])
       /\ frontier[k].weight < frontier[i].weight
       /\ heap_pop(frontier).item = frontier[k]

\* What dijkstra_starts_iter returns, run to its end, on the start entries ss.
StartsIterResult(ss) ==
  RunFull("dijkstra", SearchState(SeedHeap(accInit, ss), {}, Pending, <<>>), MaxPops)

\* C19: dijkstra(start, start_weight, ..) returns what dijkstra_starts_iter
\* returns on the single start entry (start, start_weight), the closures and
\* acc_init being the same.
C19_DijkstraIsSingleStartCase ==
  (Done1 /\ entry = "dijkstra") =>
    /\ result = StartsIterResult(<<Start(starts[1].state, starts[1].weight)>>).result
    /\ log = StartsIterResult(<<Start(starts[1].state, starts[1].weight)>>).log

C19_Witness ==
  /\ Done1 /\ entry = "dijkstra" /\ starts = <<Start("a", 1)>>
  /\ result.kind = "Some" /\ result.weight = 2
  /\ Len(result.acc.path) = 3
  /\ result = StartsIterResult(<<Start("a", 1)>>).result

\* What a call from the start s returns when it runs alone.
Alone(s) ==
  RunFull(mode,
          SearchState(InitialFrontier(mode, accInit, <<Start(s, 0)>>), {}, Pending, <<>>),
          MaxPops)

\* C20: two kernel calls running at the same time, each with its own
\* frontier and visited set and closures that only read shared data, do not
\* interfere: under every interleaving of their loop iterations each call
\* returns what it returns when run alone.
C20_ConcurrentCallsDoNotInterfere ==
  /\ pc = "done" =>
       /\ result = Alone(starts[1].state).result
       /\ visited = Alone(starts[1].state).visited
  /\ peer.pc = "done" =>
       /\ peer.result = Alone(peer.start).result
       /\ peer.visited = Alone(peer.start).visited

C20_Witness ==
  /\ pc = "done" /\ peer.pc = "done"
  /\ peer.begun >= 1 /\ peer.ended > peer.begun /\ pops > peer.ended
  /\ result.kind = "Some" /\ peer.result.kind = "Some"
  /\ result.acc # peer.result.acc
  /\ visited \cap peer.visited # {}

\* The number of neighbors neighbor_fn yielded in the first i log entries.
RECURSIVE YieldedUpTo(_)
YieldedUpTo(i) ==
  IF i = 0 THEN 0
  ELSE YieldedUpTo(i - 1)
       + (IF log[i].op = "neighbor_fn" THEN Len(neighbor_fn(graph, log[i].state)) ELSE 0)

\* C21: at every point of a dfs or bfs call the frontier holds at most as
\* many entries as there were seed entries plus the neighbors neighbor_fn
\* yielded for the states expanded so far: edges traversed, not unique states.
C21_FrontierBoundedByEdgesTraversed ==
  mode \in {"dfs", "bfs"} => Len(frontier) <= SeedCount + YieldedUpTo(Len(log))

C21_Witness ==
  /\ mode = "bfs" /\ pc = "run" /\ phase = 1
  /\ Len(frontier) = 2
  /\ Cardinality(SeqStates(frontier)) = 1
  /\ YieldedUpTo(Len(log)) = 3

\* The neighbor_fn calls that panicked.
PanickedCalls ==
  {i \in 1..Len(log) : log[i].op = "neighbor_fn" /\ log[i].state \in panicOn}

\* C22: the kernel has no failure outcome of its own: while no caller closure
\* panics, a call ends only with Some or None; when neighbor_fn panics the
\* panic leaves the call at once, with neither Some nor None, nothing pushed
\* and nothing inserted after it.
C22_OnlyClosurePanicsFail ==
  /\ pc = "run" => (PanickedCalls = {} /\ result = Pending)
  /\ pc = "done" =>
       /\ result.kind \in {"Some", "None", "Panic"}
       /\ PanickedCalls = {} => result.kind \in {"Some", "None"}
       /\ PanickedCalls # {} =>
            /\ PanickedCalls = {Len(log)}
            /\ result = Panicked(log[Len(log)].state)
            /\ result.state \notin visited

C22_Witness ==
  /\ pc = "done" /\ mode = "bfs" /\ panicOn = {"b"}
  /\ result = Panicked("b")
  /\ visited = {"a"}
  /\ frontier # <<>>
  /\ targets = {"c"} /\ "c" \in Reachable

\* C23: when Day21Part1::step(n) returns, the first bit-vector marks exactly
\* the cells whose shortest step distance from the start is even and at most
\* n, the second exactly those whose distance is odd and at most n.
C23_StepMarksCellsByParity ==
  pc = "done" =>
    /\ occupied_even_step =
         {s \in Reachable : Dist(s) % 2 = 0 /\ Dist(s) <= StepCount}
    /\ occupied_odd_step =
         {s \in Reachable : Dist(s) % 2 = 1 /\ Dist(s) <= StepCount}
    /\ \A i \in 1..Len(log) :
         log[i].op = "end_state_fn" =>
           (log[i].ret <=> log[i].acc.n > step_count_inner(StepCount))
    /\ ~AppliedTwice

C23_Witness ==
  /\ pc = "done" /\ graph = LineGraph /\ StepCount = 2
  /\ occupied_even_step = {"a", "c"}
  /\ occupied_odd_step = {"b"}
  /\ result.kind = "Some" /\ result.state = "d" /\ result.acc.n = 4

\* C24: within one dfs or bfs call acc_fn and end_state_fn are each invoked
\* at most once per distinct state, so the assertions 'A position should not
\* be applied twice' of Day21Part1::step never fail.
C24_ClosuresOncePerState ==
  mode \in {"dfs", "bfs"} =>
    /\ \A s \in States :
         /\ Cardinality(Calls("acc_fn", s)) <= 1
         /\ Cardinality(Calls("end_state_fn", s)) <= 1
    /\ ~AppliedTwice

C24_Witness ==
  /\ mode = "bfs" /\ phase = 1
  /\ \E s \in States :
       /\ Cardinality(Calls("push", s)) = 2
       /\ Cardinality(Calls("pop", s)) = 2
       /\ Cardinality(Calls("acc_fn", s)) = 1
       /\ Cardinality(Calls("end_state_fn", s)) = 1

\* The weights a dijkstra frontier can be seeded with.
SeedWeights ==
  {starts[i].weight : i \in 1..Len(starts)} \cup (IF phase = 2 THEN {0} ELSE {})

\* The weights neighbor_fn yielded so far, as it was called.
YieldedWeights ==
  UNION {{neighbor_fn_w(graph, log[i].state, log[i].weight)[k].weight :
            k \in 1..Len(neighbor_fn_w(graph, log[i].state, log[i].weight))} :
           i \in {j \in 1..Len(log) : log[j].op = "neighbor_fn"}}

\* C25: in dijkstra neighbor_fn is called with the expanded state and the
\* cumulative weight of the popped entry, and every (next_state, next_weight)
\* it yields is pushed with next_weight unchanged; the weight returned is a
\* start weight or a weight neighbor_fn yielded.
C25_WeightsPassThrough ==
  (mode = "dijkstra" /\ phase = 1) =>
    /\ \A i \in 1..Len(log) :
         log[i].op = "neighbor_fn" =>
           LET ns == neighbor_fn_w(graph, log[i].state, log[i].weight)
           IN  /\ log[i - 3].op = "pop"
               /\ log[i - 3].state = log[i].state
               /\ log[i - 3].weight = log[i].weight
               /\ \A k \in 1..Len(ns) :
                    /\ log[i + k].op = "push"
                    /\ log[i + k].state = ns[k].state
                    /\ log[i + k].weight = ns[k].weight
    /\ \A i \in 1..Len(frontier) : frontier[i].weight \in SeedWeights \cup YieldedWeights
    /\ result.kind = "Some" => result.weight \in SeedWeights \cup YieldedWeights

C25_Witness ==
  /\ Done1 /\ mode = "dijkstra" /\ graph = TriangleGraph
  /\ starts = <<Start("a", 0)>>
  /\ result.kind = "Some" /\ result.weight = 2
  /\ YieldedWeights = {1, 2, 5}

\* C26: acc_fn is applied to the start state as well as to every later state
\* on the path: the accumulator dfs or bfs returns with a terminal state k
\* edges from the start along the path taken is acc_fn folded k + 1 times
\* from acc_init, once for each of the k + 1 states of that path.
C26_FoldedOncePerPathState ==
  (Done1 /\ mode \in {"dfs", "bfs"} /\ result.kind = "Some") =>
    LET p == result.acc.path
        k == Len(p) - 1
    IN  /\ k >= 0
        /\ p[1] = starts[1].state /\ p[k + 1] = result.state
        /\ \A i \in 1..k : p[i + 1] \in Succ(p[i])
        /\ result.acc = FoldAccFn(p, k + 1)
        /\ result.acc.n = accInit + k + 1
        /\ OpCount("acc_fn") >= k + 1
        /\ \A i \in 1..(k + 1) : Cardinality(Calls("acc_fn", p[i])) = 1

C26_Witness ==
  /\ Done1 /\ mode = "dfs" /\ accInit = -1 /\ minSteps = 1
  /\ result.kind = "Some"
  /\ result.acc = [n |-> 2, path |-> <<"a", "c", "d">>]
  /\ OpCount("acc_fn") = 3

\* The least element of a non-empty set of numbers.
Min1(S) == CHOOSE x \in S : \A y \in S : x <= y

\* C27: on early termination the terminal state is not added to the visited
\* set and none of its neighbors are pushed: it is absent from the visited
\* set handed back, so a resumed search that meets it again expands it again.
C27_TerminalStateNotVisited ==
  /\ (pc = "done" /\ result.kind = "Some") =>
       /\ result.state \notin visited
       /\ Calls("neighbor_fn", result.state) = {}
       /\ Calls("insert", result.state) = {}
       /\ log[Len(log)].op = "end_state_fn"
  /\ phase = 2 =>
       /\ first.result.state \notin first.visited
       /\ \A i \in Calls("pop", first.result.state) :
            i = Min1(Calls("pop", first.result.state)) =>
              /\ i < Len(log)
              /\ log[i + 1].op = "acc_fn"
              /\ log[i + 1].state = first.result.state

C27_Witness ==
  /\ pc = "done" /\ phase = 2 /\ mode = "bfs"
  /\ result.kind = "Some"
  /\ result.state = first.result.state
  /\ extra # result.state
  /\ visited # {}

\* The visited set and the seed states the current call was given.
InitialVisited == first.visited

CallSeeds == IF phase = 2 THEN SeqStates(first.frontier) ELSE StartStates

OtherEngine == IF mode = "dfs" THEN "bfs" ELSE "dfs"

\* The other engine run to its end on what the current call was given.
OtherEngineRun ==
  RunFull(OtherEngine,
          SearchState(IF phase = 2 THEN first.frontier
                      ELSE InitialFrontier(OtherEngine, accInit, starts),
                      InitialVisited, Pending, <<>>),
          MaxPops)

\* C28: when a dfs_full or bfs_full call exhausts its frontier, the visited
\* set it returns is the initial visited set together with every state
\* reachable from a seed entry along neighbor_fn edges through states that were
\* not initially visited; dfs and bfs return the same set for the same inputs.
C28_ExhaustedVisitedIsClosure ==
  (pc = "done" /\ result = NoneResult /\ mode \in {"dfs", "bfs"}) =>
    /\ visited = InitialVisited
                 \cup WithinAvoiding(CallSeeds, InitialVisited, Cardinality(States))
    /\ OtherEngineRun.result = NoneResult => OtherEngineRun.visited = visited
    /\ StateOnly => OtherEngineRun.result = NoneResult

C28_Witness ==
  /\ pc = "done" /\ result = NoneResult /\ mode = "dfs" /\ phase = 2
  /\ InitialVisited # {}
  /\ visited # InitialVisited
  /\ \E s \in visited \ InitialVisited : Succ(s) \cap InitialVisited # {}
  /\ OtherEngineRun.visited = visited

\* The expansions of the current call, in order: the acc_fn calls.
Expansions == {i \in 1..Len(log) : log[i].op = "acc_fn"}

\* C29: bfs expands states in non-decreasing order of their edge distance
\* from the start, and every state is first expanded via a shortest path.
C29_BfsExpandsInDistanceOrder ==
  (mode = "bfs" /\ phase = 1) =>
    /\ \A i \in Expansions, j \in Expansions :
         i < j => Dist(log[i].state) <= Dist(log[j].state)
    /\ \A i \in Expansions :
         /\ log[i].state \in Reachable
         /\ Len(log[i].out.path) = Dist(log[i].state) + 1

C29_Witness ==
  /\ mode = "bfs" /\ phase = 1
  /\ \E i \in Expansions, j \in Expansions, k \in Expansions :
       /\ i < j /\ j < k
       /\ Dist(log[i].state) = 1 /\ Dist(log[j].state) = 1
       /\ Dist(log[k].state) = 2
       /\ Cardinality(Calls("push", log[k].state)) = 1

\* The step expands a state: its last recorded event is the insert.
ExpansionStep ==
  /\ log' # log /\ log' # <<>>
  /\ log'[Len(log')].op = "insert"

\* C30: the visited set only grows during a call, by exactly the state just
\* expanded at each expansion step; the states already in the visited set a
\* *_full call is given never have acc_fn, end_state_fn or neighbor_fn invoked
\* on them: their entries are discarded when popped.
C30_VisitedGrowsByExpandedState ==
  /\ [][/\ visited \subseteq visited'
        /\ ExpansionStep =>
             /\ log'[Len(log')].state \notin visited
             /\ visited' = visited \cup {log'[Len(log')].state}
        /\ ~ExpansionStep => visited' = visited]_vars
  /\ [](\A s \in InitialVisited :
          /\ Calls("acc_fn", s) = {}
          /\ Calls("end_state_fn", s) = {}
          /\ Calls("neighbor_fn", s) = {}
          /\ \A i \in Calls("pop", s) : i = Len(log) \/ log[i + 1].op = "pop")

C30_Witness ==
  /\ pc = "done" /\ phase = 2 /\ mode = "dijkstra"
  /\ \E s \in InitialVisited : Calls("pop", s) # {}
  /\ visited # InitialVisited
  /\ InitialVisited # {}

====
